---- MODULE Spec2Model ----
(***************************************************************************)
(* create_project.py: the tree materializer (walk), its helpers (render,   *)
(* should_include, cond_pass, copy_rendered) and the part of main that     *)
(* prepares the destination, calls walk and reports.                       *)
(*                                                                         *)
(* A string is a sequence of one-character strings.  A path is a sequence  *)
(* of segments below the destination root; <<>> is the destination root.   *)
(* A YAML mapping is a record; a key that is absent from the mapping is    *)
(* absent from the record's DOMAIN.                                        *)
(***************************************************************************)
EXTENDS Integers, Sequences, FiniteSets, TLC

VARIABLES
    inp,        \* the run's inputs: spec, vars_, enabled, tmpl, force, add, and
                \* dest, the destination as the first invocation finds it
    dry_run,    \* args.dry_run of the current invocation
    fs_dirs,    \* the directories of the destination filesystem (paths)
    fs_files,   \* the files of the destination filesystem: path -> [data, mtime]
    clock,      \* the filesystem's modification clock
    pc,         \* main's position: "paths", "root", "walk", "exit"
    stack,      \* walk's call stack, innermost frame first
    lists,      \* the list objects walk has allocated for `created`
    err,        \* the exception in flight ("" if none)
    rc,         \* main's return code (-1 while running)
    created,    \* main's `created` (the list walk returned)
    trace,      \* history: what each step of the traversal did
    run,        \* 1 for the first invocation, 2 for the second
    prev        \* history: the outcome of the first invocation

vars == <<inp, dry_run, fs_dirs, fs_files, clock, pc, stack, lists, err, rc,
          created, trace, run, prev>>

-----------------------------------------------------------------------------
(* Python values *)

\* None, kept apart from every string (no string has a several-character element)
None == <<"None">>

\* d.get(k)
Get(d, k) == IF k \in DOMAIN d THEN d[k] ELSE None

\* truthiness of a str-or-None value
Truthy(x) == x # None /\ x # <<>>

-----------------------------------------------------------------------------
(* Utilities *)

Placeholder(k) == <<"{", "{">> \o k \o <<"}", "}">>

\* str.replace(old, new): non-overlapping occurrences, left to right
RECURSIVE Replace(_, _, _)
Replace(s, old, new) ==
    IF Len(s) < Len(old) \/ old = <<>> THEN s
    ELSE IF SubSeq(s, 1, Len(old)) = old
         THEN new \o Replace(SubSeq(s, Len(old) + 1, Len(s)), old, new)
         ELSE <<Head(s)>> \o Replace(Tail(s), old, new)

\* the loop of render over vars_.items() from item i on
RECURSIVE RenderFrom(_, _, _)
RenderFrom(out, vars_, i) ==
    IF i > Len(vars_) THEN out
    ELSE RenderFrom(Replace(out, Placeholder(vars_[i].k), vars_[i].v), vars_, i + 1)

\* variant of render: the first item of the mapping is not applied
render_skip_first(s, vars_) == RenderFrom(s, vars_, 2)

render(s, vars_) == RenderFrom(s, vars_, 1)

\* vars_.get(k, "")
VarsGet(vars_, k) ==
    IF \E i \in 1..Len(vars_) : vars_[i].k = k
    THEN vars_[CHOOSE i \in 1..Len(vars_) : vars_[i].k = k].v
    ELSE <<>>

RECURSIVE LStrip(_)
LStrip(s) == IF s # <<>> /\ Head(s) = " " THEN LStrip(Tail(s)) ELSE s

RECURSIVE RStrip(_)
RStrip(s) ==
    IF s # <<>> /\ s[Len(s)] = " " THEN RStrip(SubSeq(s, 1, Len(s) - 1)) ELSE s

\* str.strip()
strip(s) == RStrip(LStrip(s))

\* "=" in s
HasEq(s) == \E i \in 1..Len(s) : s[i] = "="

\* the index of the first "=" of s
FirstEq(s) == CHOOSE i \in 1..Len(s) : s[i] = "=" /\ \A j \in 1..(i - 1) : s[j] # "="

\* variants of should_include: no gate at all; a gate that does not ask for an id
should_include_all(node, enabled_set) == TRUE

should_include_any(node, enabled_set) ==
    IF "optional" \in DOMAIN node /\ node.optional
    THEN Get(node, "id") \in enabled_set
    ELSE TRUE

should_include(node, enabled_set) ==
    IF ("optional" \in DOMAIN node /\ node.optional) /\ Truthy(Get(node, "id"))
    THEN node.id \in enabled_set
    ELSE TRUE

\* variant of cond_pass: an only_if without "=" does not hold
cond_pass_lenient(only_if, vars_) ==
    IF ~Truthy(only_if) THEN "True"
    ELSE IF ~HasEq(only_if) THEN "False"
    ELSE LET i == FirstEq(only_if)
             k == SubSeq(only_if, 1, i - 1)
             v == SubSeq(only_if, i + 1, Len(only_if))
         IN  IF VarsGet(vars_, strip(k)) = strip(v) THEN "True" ELSE "False"

\* variant of cond_pass: the values are compared without regard to case
cond_pass_nocase(only_if, vars_) ==
    IF ~Truthy(only_if) THEN "True"
    ELSE IF ~HasEq(only_if) THEN "ValueError"
    ELSE LET i == FirstEq(only_if)
             k == SubSeq(only_if, 1, i - 1)
             v == SubSeq(only_if, i + 1, Len(only_if))
             low(s) == [j \in 1..Len(s) |-> IF s[j] = "G" THEN "g" ELSE s[j]]
         IN  IF low(VarsGet(vars_, strip(k))) = low(strip(v)) THEN "True" ELSE "False"

\* "True", "False", or "ValueError" when it raises
cond_pass(only_if, vars_) ==
    IF ~Truthy(only_if) THEN "True"
    ELSE IF ~HasEq(only_if) THEN "ValueError"
    ELSE LET i == FirstEq(only_if)
             k == SubSeq(only_if, 1, i - 1)
             v == SubSeq(only_if, i + 1, Len(only_if))
         IN  IF VarsGet(vars_, strip(k)) = strip(v) THEN "True" ELSE "False"

\* the decoding probe reads at most n bytes
n == 4096

\* a byte sequence that is no UTF-8 text holds the byte "#"
is_text_file(data) ==
    \A i \in 1..Len(data) : i <= n => data[i] # "#"

-----------------------------------------------------------------------------
(* The filesystem *)

\* Path.exists()
Exists(dirs, files, p) == p \in dirs \/ p \in DOMAIN files

\* cwd / name
Join(cwd, name) == IF name = <<>> THEN cwd ELSE Append(cwd, name)

Parent(p) == IF p = <<>> THEN p ELSE SubSeq(p, 1, Len(p) - 1)

\* variant of MkdirP: exist_ok also tolerates a file at the path
MkdirP_over_file(dirs, files, p) ==
    IF \E i \in 0..(Len(p) - 1) : SubSeq(p, 1, i) \in DOMAIN files
    THEN [err |-> "NotADirectoryError", dirs |-> dirs]
    ELSE [err |-> "", dirs |-> dirs \cup {SubSeq(p, 1, i) : i \in 0..Len(p)}]

\* Path.mkdir(parents=True, exist_ok=True): [err, dirs]
MkdirP(dirs, files, p) ==
    IF p \in DOMAIN files THEN [err |-> "FileExistsError", dirs |-> dirs]
    ELSE IF \E i \in 0..(Len(p) - 1) : SubSeq(p, 1, i) \in DOMAIN files
         THEN [err |-> "NotADirectoryError", dirs |-> dirs]
         ELSE [err |-> "", dirs |-> dirs \cup {SubSeq(p, 1, i) : i \in 0..Len(p)}]

\* the file at p becomes f
Put(files, p, f) == (p :> f) @@ files

\* Path.write_text(text): [err, files]
WriteText(dirs, files, p, text, now) ==
    IF p \in dirs THEN [err |-> "IsADirectoryError", files |-> files]
    ELSE [err |-> "", files |-> Put(files, p, [data |-> text, mtime |-> now])]

\* Path.touch(): a new empty file, or a new mtime on what is there
Touch(dirs, files, p, now) ==
    IF p \in dirs THEN files
    ELSE IF p \in DOMAIN files THEN Put(files, p, [files[p] EXCEPT !.mtime = now])
         ELSE Put(files, p, [data |-> <<>>, mtime |-> now])

\* copy_rendered(src, dst, vars_), src being the template t: [err, dirs, files]
copy_rendered(t, dirs, files, dst, vars_, now) ==
    LET m == MkdirP(dirs, files, Parent(dst)) IN
    IF m.err # "" THEN [err |-> m.err, dirs |-> dirs, files |-> files]
    ELSE IF dst \in m.dirs
         THEN [err |-> "IsADirectoryError", dirs |-> m.dirs, files |-> files]
         ELSE IF is_text_file(t.data)
              THEN [err |-> "", dirs |-> m.dirs,
                    files |-> Put(files, dst, [data |-> render(t.data, vars_), mtime |-> now])]
              ELSE [err |-> "", dirs |-> m.dirs,
                    files |-> Put(files, dst, [data |-> t.data, mtime |-> t.mtime])]

-----------------------------------------------------------------------------
(* The inputs of a run *)

MaxFiles == 2
MaxChildren == 2
MaxDepth == 3
MaxCondLen == 3
MaxTokens == 3

sA == <<"a">>
sB == <<"b">>
idX == <<"x">>
idY == <<"y">>
tokP == Placeholder(<<"P">>)

\* sequences over S of length 0..k
SeqUpTo(S, k) == UNION {[1..i -> S] : i \in 0..k}

\* the variable mapping, in insertion order: defaults and --vars, then PROJECT
VarsA == <<[k |-> <<"s">>, v |-> <<"g">>], [k |-> <<"P">>, v |-> sA]>>
VarsB == <<[k |-> <<"s">>, v |-> <<"G">>], [k |-> <<"P">>, v |-> sB]>>
VarsP == <<[k |-> <<"P">>, v |-> sA]>>

\* the template root: "t" is a text file, "u" is not; there is no "m"
Templates ==
    (<<"t">> :> [data |-> tokP \o <<"t">>, mtime |-> 0]) @@
    (<<"u">> :> [data |-> <<"#">> \o tokP, mtime |-> 0])

Old == [data |-> <<"o">>, mtime |-> 0]
NoFiles == [p \in {} |-> Old]

\* destinations: absent, empty, a project with a file a/a, a project with a
\* directory a/a, a file where the root node's directory goes, a file where
\* the destination goes
FsAbsent == [dirs |-> {}, files |-> NoFiles]
FsEmpty  == [dirs |-> {<<>>}, files |-> NoFiles]
FsFile   == [dirs |-> {<<>>, <<sA>>}, files |-> (<<sA, sA>> :> Old)]
FsDir    == [dirs |-> {<<>>, <<sA>>, <<sA, sA>>}, files |-> NoFiles]
FsBlock  == [dirs |-> {<<>>}, files |-> (<<sA>> :> Old)]
FsNoDest == [dirs |-> {}, files |-> (<<>> :> Old)]

\* file entries: inline content, a rendered name, a text and a binary template,
\* a missing template, an empty file, no name
FInline == [name |-> sA, content |-> tokP \o <<"c">>]
FPlain  == [name |-> sB, content |-> <<"d">>]
FThird  == [name |-> <<"c">>, content |-> <<"d">>]
EntriesA ==
    { FInline,
      [name |-> tokP, content |-> <<"d">>],
      [name |-> sA, from |-> <<"t">>],
      [name |-> sB, from |-> <<"u">>],
      [name |-> sA, from |-> <<"m">>],
      [name |-> sB],
      [content |-> <<"c">>] }

\* file entries: optional with a disabled and with an enabled id, optional
\* without id, an id without optional, an only_if that holds, one that does
\* not, one that is no key=value
EntriesG ==
    { [name |-> sA, content |-> <<"c">>, optional |-> TRUE, id |-> idY],
      [name |-> sB, content |-> <<"c">>, optional |-> TRUE, id |-> idX],
      [name |-> sA, content |-> <<"c">>, optional |-> TRUE],
      [name |-> sB, content |-> <<"c">>, optional |-> FALSE, id |-> idY],
      [name |-> sA, content |-> <<"e">>, only_if |-> <<"s", "=", "g">>],
      [name |-> sA, content |-> <<"e">>, only_if |-> <<"s", "=", "G">>,
       optional |-> TRUE, id |-> idX],
      [name |-> sB, only_if |-> <<"s", "g">>] }

\* directory nodes: plain, optional with an enabled id, with a disabled id,
\* optional without id, and two without 'dir'
KindA    == [dir |-> sA]
KindX    == [dir |-> sB, optional |-> TRUE, id |-> idX]
KindY    == [dir |-> sA, optional |-> TRUE, id |-> idY]
KindNoY  == [optional |-> TRUE, id |-> idY]
KindNoX  == [id |-> idX]
Kinds ==
    { KindA, KindX, KindY, KindNoY, KindNoX,
      [dir |-> sB],
      [dir |-> tokP, optional |-> TRUE] }

With(kind, fs, cs) == kind @@ [files |-> fs, children |-> cs]

Leaves == {With(k, <<FInline>>, <<>>) : k \in Kinds}

\* a chain of d nodes, one child each
RECURSIVE Chains(_)
Chains(d) ==
    IF d <= 1 THEN Leaves
    ELSE {With(k, <<FThird>>, <<c>>) : k \in {KindA, KindX, KindY}, c \in Chains(d - 1)}

Flags == [force : BOOLEAN, add : BOOLEAN]

Input(root, vars_, enabled, fl) ==
    [spec |-> [root |-> root], vars_ |-> vars_, enabled |-> enabled,
     tmpl |-> Templates, force |-> fl.force, add |-> fl.add]

\* one node with up to MaxFiles file entries, over an empty destination and
\* over one that holds a/a
InputsFiles ==
    {[i |-> Input(With(KindA, fs, <<>>), VarsA, {idX}, fl), fs |-> d] :
        fs \in SeqUpTo(EntriesA, MaxFiles), fl \in Flags, d \in {FsEmpty, FsFile}}

\* one node with two gated file entries
InputsGates ==
    {[i |-> Input(With(KindA, <<f, g>>, <<>>), VarsA, en, fl), fs |-> FsEmpty] :
        f \in EntriesG, g \in EntriesG, en \in {{}, {idX}}, fl \in Flags}

\* a root with two file entries and up to MaxChildren children, over an absent
\* and over an empty destination
InputsTree ==
    {[i |-> Input(With(k, <<FInline, FThird>>, cs), VarsA, {idX}, fl), fs |-> d] :
        k \in {KindA, KindY},
        cs \in SeqUpTo({With(k, <<FInline>>, <<>>) : k \in {KindA, KindX, KindY, KindNoY, KindNoX}},
                       MaxChildren),
        fl \in Flags, d \in {FsAbsent, FsEmpty}}

\* a chain of MaxDepth nodes
InputsChain ==
    {[i |-> Input(r, VarsB, {idX}, fl), fs |-> FsEmpty] :
        r \in Chains(MaxDepth), fl \in Flags}

\* every destination, and a document without 'root'
InputsDest ==
    {[i |-> [Input(KindA, VarsA, {}, fl) EXCEPT !.spec = sp], fs |-> d] :
        sp \in {[root |-> With([dir |-> tokP], <<FInline>>,
                               <<With([dir |-> sB], <<FPlain>>, <<>>)>>)],
                [defaults |-> <<>>]},
        fl \in Flags, d \in {FsAbsent, FsEmpty, FsFile, FsDir, FsBlock, FsNoDest}}

\* every only_if of up to MaxCondLen characters
InputsCond ==
    {[i |-> Input(With(KindA,
                       <<[name |-> sA, content |-> <<"c">>, only_if |-> c], FPlain>>, <<>>),
                  v, {}, [force |-> TRUE, add |-> FALSE]),
      fs |-> FsEmpty] :
        c \in SeqUpTo({"s", "g", "G", "=", " "}, MaxCondLen), v \in {VarsA, VarsB, VarsP}}

\* mappings whose values hold placeholders: of a later key, of an earlier key,
\* of their own key, and of a key that is not bound
VarsLater == <<[k |-> <<"s">>, v |-> tokP], [k |-> <<"P">>, v |-> sA]>>
VarsEarlier == <<[k |-> <<"P">>, v |-> sA], [k |-> <<"s">>, v |-> tokP]>>
VarsSelf == <<[k |-> <<"P">>, v |-> tokP \o sA]>>
VarsFree == <<[k |-> <<"s">>, v |-> Placeholder(<<"U">>)], [k |-> <<"P">>, v |-> <<>>]>>

\* the pieces of a text: the placeholders of P, s and U, and a letter
Tokens == {tokP, Placeholder(<<"s">>), Placeholder(<<"U">>), <<"x">>}

RECURSIVE Flatten(_)
Flatten(ts) == IF ts = <<>> THEN <<>> ELSE Head(ts) \o Flatten(Tail(ts))

\* one node whose directory name, file name and inline content are the same
\* text of up to MaxTokens pieces
InputsRender ==
    {[i |-> Input([dir |-> t, files |-> <<[name |-> t, content |-> t]>>], v, {},
                  [force |-> TRUE, add |-> FALSE]),
      fs |-> FsEmpty] :
        t \in {Flatten(ts) : ts \in SeqUpTo(Tokens, MaxTokens)},
        v \in {VarsA, VarsLater, VarsEarlier, VarsSelf, VarsFree}}

Inputs ==
    InputsFiles \cup InputsGates \cup InputsTree \cup InputsChain \cup InputsDest
        \cup InputsCond \cup InputsRender

Init ==
    /\ \E x \in Inputs :
         /\ inp = x.i @@ [dest |-> x.fs]
         /\ fs_dirs = x.fs.dirs
         /\ fs_files = x.fs.files
    /\ dry_run \in BOOLEAN
    /\ clock = 0
    /\ pc = "paths"
    /\ stack = <<>>
    /\ lists = <<>>
    /\ err = ""
    /\ rc = -1
    /\ created = None
    /\ trace = <<>>
    /\ run = 1
    /\ prev = [dry_run |-> FALSE, rc |-> -1, err |-> "", created |-> None,
               trace |-> <<>>, dirs |-> {}, files |-> NoFiles]

-----------------------------------------------------------------------------
(* walk *)

Files(node) == IF "files" \in DOMAIN node THEN node.files ELSE <<>>

Children(node) == IF "children" \in DOMAIN node THEN node.children ELSE <<>>

\* variants of conflict: the older walk, which knows no add-mode; an add-mode
\* that skips an existing file even under force
conflict_noadd(exists, force, add) ==
    IF exists /\ ~force THEN "raise" ELSE "write"

conflict_add_wins(exists, force, add) ==
    IF exists
    THEN IF add THEN "skip"
         ELSE IF ~force THEN "raise" ELSE "write"
    ELSE "write"

\* what walk does about a destination: "write", "skip" or "raise"

conflict(exists, force, add) ==
    IF exists
    THEN IF add /\ ~force THEN "skip"
         ELSE IF ~force THEN "raise" ELSE "write"
    ELSE "write"

\* variant of Materialize: the template source is not looked for before the
\* copy, which finds it missing after it has made the destination file
Materialize_unchecked(f, dirs, files, dst, vars_, tmpl, now) ==
    IF "content" \in DOMAIN f
    THEN LET m == MkdirP(dirs, files, Parent(dst))
             w == WriteText(m.dirs, files, dst, render(f.content, vars_), now)
         IN  IF m.err # "" THEN [err |-> m.err, dirs |-> dirs, files |-> files]
             ELSE [err |-> w.err, dirs |-> m.dirs, files |-> w.files]
    ELSE IF "from" \in DOMAIN f
         THEN IF f.from \notin DOMAIN tmpl
              THEN [err |-> "FileNotFoundError", dirs |-> dirs,
                    files |-> Put(files, dst, [data |-> <<>>, mtime |-> now])]
              ELSE copy_rendered(tmpl[f.from], dirs, files, dst, vars_, now)
         ELSE LET m == MkdirP(dirs, files, Parent(dst)) IN
              IF m.err # "" THEN [err |-> m.err, dirs |-> dirs, files |-> files]
              ELSE [err |-> "", dirs |-> m.dirs, files |-> Touch(m.dirs, files, dst, now)]

\* the write of one file entry: [err, dirs, files]
Materialize(f, dirs, files, dst, vars_, tmpl, now) ==
    IF "content" \in DOMAIN f
    THEN LET m == MkdirP(dirs, files, Parent(dst))
             w == WriteText(m.dirs, files, dst, render(f.content, vars_), now)
         IN  IF m.err # "" THEN [err |-> m.err, dirs |-> dirs, files |-> files]
             ELSE [err |-> w.err, dirs |-> m.dirs, files |-> w.files]
    ELSE IF "from" \in DOMAIN f
         THEN IF f.from \notin DOMAIN tmpl
              THEN [err |-> "FileNotFoundError", dirs |-> dirs, files |-> files]
              ELSE copy_rendered(tmpl[f.from], dirs, files, dst, vars_, now)
         ELSE LET m == MkdirP(dirs, files, Parent(dst)) IN
              IF m.err # "" THEN [err |-> m.err, dirs |-> dirs, files |-> files]
              ELSE [err |-> "", dirs |-> m.dirs, files |-> Touch(m.dirs, files, dst, now)]

\* variant of Unwind: the caller goes on with its next child
Unwind_one(stk) == Tail(stk)

\* the call stack after an exception: no frame of walk catches it

Unwind(stk) == <<>>

\* a frame of walk entered with the positional and keyword arguments
Frame(node, cwd, arg, pos) ==
    [node |-> node, cwd |-> cwd, created |-> arg, dir_path |-> cwd,
     at |-> "enter", fi |-> 1, ci |-> 1, pos |-> pos]

Top == Head(stack)

\* variant of Step: the children before the files
Step_children_first(fr) ==
    IF fr.at # "body" THEN fr.at
    ELSE IF fr.ci <= Len(Children(fr.node)) THEN "child"
         ELSE IF fr.fi <= Len(Files(fr.node)) THEN "file" ELSE "return"

\* where the body of walk stands: the loop over the files, then the loop over
\* the children, then the return
Step(fr) ==
    IF fr.at # "body" THEN fr.at
    ELSE IF fr.fi <= Len(Files(fr.node)) THEN "file"
         ELSE IF fr.ci <= Len(Children(fr.node)) THEN "child" ELSE "return"

\* the state of a path: its type and, for a file, its data and mtime
Stat(dirs, files, p) ==
    IF p \in DOMAIN files THEN [type |-> "file", data |-> files[p].data, mtime |-> files[p].mtime]
    ELSE IF p \in dirs THEN [type |-> "dir", data |-> <<>>, mtime |-> 0]
         ELSE [type |-> "none", data |-> <<>>, mtime |-> 0]

\* history: what the step at node fr.pos (file entry fi, 0 for the node's own
\* directory) did to path: act is "record" (dry-run), "mkdir", "write", "skip"
\* (conflict policy), "cond_false" (only_if) or "raise" (with the error)
Event(kind, fr, fi, path, act, error, before, after) ==
    [kind |-> kind, pos |-> fr.pos, fi |-> fi, path |-> path, act |-> act,
     error |-> error, before |-> before, after |-> after]

\* raise e: the exception leaves walk
Raise(e, ev) ==
    /\ stack' = Unwind(stack)
    /\ err' = e
    /\ trace' = Append(trace, ev)

\* the innermost frame goes on as fr
Continue(fr) == stack' = <<fr>> \o Tail(stack)

\* lines 279-291: created = created or [], the node's name, its inclusion and
\* its own directory
WalkEnter ==
    /\ pc = "walk" /\ stack # <<>> /\ Step(Top) = "enter"
    /\ LET fr    == Top
           fresh == fr.created = 0 \/ lists[fr.created] = <<>>
           c     == IF fresh THEN Len(lists) + 1 ELSE fr.created
           ls    == IF fresh THEN Append(lists, <<>>) ELSE lists
           name  == Get(fr.node, "dir")
       IN  IF name = None
           THEN /\ Raise("ValueError",
                         Event("DIR", fr, 0, fr.cwd, "raise", "ValueError",
                               Stat(fs_dirs, fs_files, fr.cwd), Stat(fs_dirs, fs_files, fr.cwd)))
                /\ lists' = ls
                /\ UNCHANGED <<fs_dirs, fs_files>>
           ELSE LET dir_path == Join(fr.cwd, render(name, inp.vars_))
                    st == Stat(fs_dirs, fs_files, dir_path)
                    in == [fr EXCEPT !.created = c, !.dir_path = dir_path, !.at = "body"]
                IN  IF should_include(fr.node, inp.enabled)
                    THEN IF dry_run
                         THEN /\ lists' = [ls EXCEPT ![c] =
                                     Append(@, [kind |-> "DIR", path |-> dir_path, src |-> None])]
                              /\ Continue(in)
                              /\ trace' = Append(trace, Event("DIR", fr, 0, dir_path, "record", "", st, st))
                              /\ UNCHANGED <<fs_dirs, fs_files, err>>
                         ELSE LET m == MkdirP(fs_dirs, fs_files, dir_path) IN
                              /\ lists' = ls
                              /\ fs_dirs' = m.dirs
                              /\ UNCHANGED fs_files
                              /\ IF m.err # ""
                                 THEN Raise(m.err, Event("DIR", fr, 0, dir_path, "raise", m.err, st, st))
                                 ELSE /\ Continue(in)
                                      /\ trace' = Append(trace,
                                             Event("DIR", fr, 0, dir_path, "mkdir", "", st,
                                                   Stat(m.dirs, fs_files, dir_path)))
                                      /\ UNCHANGED err
                    ELSE /\ lists' = ls
                         /\ Continue([in EXCEPT !.at = "return"])
                         /\ UNCHANGED <<fs_dirs, fs_files, err, trace>>
    /\ UNCHANGED <<inp, dry_run, clock, pc, rc, created, run, prev>>

\* lines 294-324: one iteration of the loop over the node's file entries
WalkFile ==
    /\ pc = "walk" /\ stack # <<>> /\ Step(Top) = "file"
    /\ LET fr   == Top
           f    == Files(fr.node)[fr.fi]
           next == [fr EXCEPT !.fi = fr.fi + 1]
           here == Stat(fs_dirs, fs_files, fr.dir_path)
       IN  IF "name" \notin DOMAIN f
           THEN /\ Raise("ValueError",
                         Event("FILE", fr, fr.fi, fr.dir_path, "raise", "ValueError", here, here))
                /\ UNCHANGED <<fs_dirs, fs_files, clock, lists>>
           ELSE LET fname == render(f.name, inp.vars_)
                    dst   == Join(fr.dir_path, fname)
                    st    == Stat(fs_dirs, fs_files, dst)
                    cond  == cond_pass(Get(f, "only_if"), inp.vars_)
                IN  IF cond = "ValueError"
                    THEN /\ Raise("ValueError", Event("FILE", fr, fr.fi, dst, "raise", "ValueError", st, st))
                         /\ UNCHANGED <<fs_dirs, fs_files, clock, lists>>
                    ELSE IF cond = "False"
                    THEN /\ Continue(next)
                         /\ trace' = Append(trace, Event("FILE", fr, fr.fi, dst, "cond_false", "", st, st))
                         /\ UNCHANGED <<fs_dirs, fs_files, clock, lists, err>>
                    ELSE IF dry_run
                    THEN /\ lists' = [lists EXCEPT ![fr.created] =
                                Append(@, [kind |-> "FILE", path |-> dst,
                                           src |-> IF Truthy(Get(f, "from")) THEN f.from ELSE None])]
                         /\ Continue(next)
                         /\ trace' = Append(trace, Event("FILE", fr, fr.fi, dst, "record", "", st, st))
                         /\ UNCHANGED <<fs_dirs, fs_files, clock, err>>
                    ELSE LET d == conflict(Exists(fs_dirs, fs_files, dst), inp.force, inp.add) IN
                         IF d = "skip"
                         THEN /\ Continue(next)
                              /\ trace' = Append(trace, Event("FILE", fr, fr.fi, dst, "skip", "", st, st))
                              /\ UNCHANGED <<fs_dirs, fs_files, clock, lists, err>>
                         ELSE IF d = "raise"
                         THEN /\ Raise("FileExistsError",
                                       Event("FILE", fr, fr.fi, dst, "raise", "FileExistsError", st, st))
                              /\ UNCHANGED <<fs_dirs, fs_files, clock, lists>>
                         ELSE LET m == Materialize(f, fs_dirs, fs_files, dst, inp.vars_,
                                                   inp.tmpl, clock + 1)
                                  after == Stat(m.dirs, m.files, dst)
                              IN  /\ fs_dirs' = m.dirs
                                  /\ fs_files' = m.files
                                  /\ clock' = clock + 1
                                  /\ UNCHANGED lists
                                  /\ IF m.err # ""
                                     THEN Raise(m.err, Event("FILE", fr, fr.fi, dst, "raise", m.err, st, after))
                                     ELSE /\ Continue(next)
                                          /\ trace' = Append(trace,
                                                 Event("FILE", fr, fr.fi, dst, "write", "", st, after))
                                          /\ UNCHANGED err
    /\ UNCHANGED <<inp, dry_run, pc, rc, created, run, prev>>

\* lines 327-331: one iteration of the loop over the node's children
WalkChild ==
    /\ pc = "walk" /\ stack # <<>> /\ Step(Top) = "child"
    /\ LET fr    == Top
           child == Children(fr.node)[fr.ci]
           next  == [fr EXCEPT !.ci = fr.ci + 1]
       IN  IF ~should_include(child, inp.enabled)
           THEN Continue(next)
           ELSE stack' = <<Frame(child, fr.dir_path, fr.created, Append(fr.pos, fr.ci)), next>>
                             \o Tail(stack)
    /\ UNCHANGED <<inp, dry_run, fs_dirs, fs_files, clock, pc, lists, err, rc,
                   created, trace, run, prev>>

\* line 333: return created; only main uses the value
WalkReturn ==
    /\ pc = "walk" /\ stack # <<>> /\ Step(Top) = "return"
    /\ stack' = Tail(stack)
    /\ created' = IF Len(stack) = 1 /\ err = "" THEN lists[Top.created] ELSE created
    /\ UNCHANGED <<inp, dry_run, fs_dirs, fs_files, clock, pc, lists, err, rc,
                   trace, run, prev>>

-----------------------------------------------------------------------------
(* main *)

\* lines 408-414: the destination root is created, dry-run or not
MainPaths ==
    /\ pc = "paths"
    /\ LET m == MkdirP(fs_dirs, fs_files, <<>>) IN
       /\ fs_dirs' = m.dirs
       /\ IF m.err # ""
          THEN rc' = 1 /\ pc' = "exit"
          ELSE rc' = rc /\ pc' = "root"
    /\ UNCHANGED <<inp, dry_run, fs_files, clock, stack, lists, err, created,
                   trace, run, prev>>

\* lines 417-426: the root node, and the call of walk
MainRoot ==
    /\ pc = "root"
    /\ IF "root" \notin DOMAIN inp.spec
       THEN rc' = 1 /\ pc' = "exit" /\ UNCHANGED stack
       ELSE rc' = rc /\ pc' = "walk" /\ stack' = <<Frame(inp.spec.root, <<>>, 0, <<>>)>>
    /\ UNCHANGED <<inp, dry_run, fs_dirs, fs_files, clock, lists, err, created,
                   trace, run, prev>>

\* lines 427-442: the except clauses and the report
MainReport ==
    /\ pc = "walk" /\ stack = <<>>
    /\ rc' = IF err # "" THEN 1 ELSE 0
    /\ pc' = "exit"
    /\ UNCHANGED <<inp, dry_run, fs_dirs, fs_files, clock, stack, lists, err,
                   created, trace, run, prev>>

\* the tool is invoked a second time on the same inputs and destination: a
\* preview is followed by the real run, a real run is repeated
Rerun ==
    /\ pc = "exit" /\ run = 1
    /\ run' = 2
    /\ prev' = [dry_run |-> dry_run, rc |-> rc, err |-> err, created |-> created,
                trace |-> trace, dirs |-> fs_dirs, files |-> fs_files]
    /\ dry_run' = FALSE
    /\ pc' = "paths"
    /\ stack' = <<>> /\ lists' = <<>> /\ err' = "" /\ rc' = -1
    /\ created' = None /\ trace' = <<>>
    /\ UNCHANGED <<inp, fs_dirs, fs_files, clock>>

Next ==
    \/ MainPaths
    \/ MainRoot
    \/ WalkEnter
    \/ WalkFile
    \/ WalkChild
    \/ WalkReturn
    \/ MainReport
    \/ Rerun

Spec == Init /\ [][Next]_vars


-----------------------------------------------------------------------------
(* Reading the history *)

Root == inp.spec.root

RECURSIVE NodeAt(_, _)
NodeAt(node, pos) ==
    IF pos = <<>> THEN node ELSE NodeAt(Children(node)[Head(pos)], Tail(pos))

\* the file entry an event of kind "FILE" is about
EntryOf(e) == Files(NodeAt(Root, e.pos))[e.fi]

\* the file steps of a real run that reached the Conflict Policy: the entry has
\* a name and its only_if holds
Reached(e) ==
    /\ ~dry_run
    /\ e.kind = "FILE"
    /\ e.act \in {"write", "skip"} \/ (e.act = "raise" /\ e.error # "ValueError")

SourceMissing(f) ==
    "content" \notin DOMAIN f /\ "from" \in DOMAIN f /\ f.from \notin DOMAIN inp.tmpl

NoSource(f) == "content" \notin DOMAIN f /\ "from" \notin DOMAIN f

\* what the entry's file is to hold
Expected(f) ==
    IF "content" \in DOMAIN f THEN render(f.content, inp.vars_)
    ELSE IF "from" \in DOMAIN f
         THEN IF is_text_file(inp.tmpl[f.from].data)
              THEN render(inp.tmpl[f.from].data, inp.vars_)
              ELSE inp.tmpl[f.from].data
         ELSE <<>>

Written(e) ==
    /\ e.act = "write"
    /\ e.after.type = "file"
    /\ ~SourceMissing(EntryOf(e))
    /\ e.after.data = Expected(EntryOf(e))

\* the last step's effect is what the filesystem holds
LastAsLogged ==
    (trace # <<>> /\ ~dry_run) =>
        Stat(fs_dirs, fs_files, trace[Len(trace)].path) = trace[Len(trace)].after

-----------------------------------------------------------------------------
(* C1 *)

-----------------------------------------------------------------------------
(* C2 *)

SecondAdd == run = 2 /\ ~prev.dry_run /\ inp.add /\ ~inp.force

\* C2 as stated: the second run in add-mode ends without error and leaves the
\* filesystem as the first run left it, for any specification.
C2_AsStated ==
    (SecondAdd /\ pc = "exit") =>
        (rc = 0 /\ fs_dirs = prev.dirs /\ fs_files = prev.files)

\* C2, amended: the second run in add-mode changes nothing in the filesystem
\* at any of its steps, and it ends as the first run ended: without error when
\* the first run ended without error, and with the same error otherwise.
C2_AddIdempotent ==
    SecondAdd =>
        /\ fs_dirs = prev.dirs
        /\ fs_files = prev.files
        /\ pc = "exit" => (rc = prev.rc /\ err = prev.err)

\* a second run that skipped what the first run wrote
C2_Witness ==
    /\ SecondAdd /\ pc = "exit" /\ rc = 0
    /\ \E i \in 1..Len(prev.trace) : prev.trace[i].act = "write"
    /\ \E i \in 1..Len(trace) : trace[i].act = "skip"

-----------------------------------------------------------------------------
(* C3 *)

\* C3: no step of a dry-run changes the filesystem: no directory (the
\* destination root included) and no file is created, written or touched.
C3_DryRunPure ==
    [][dry_run => (fs_dirs' = fs_dirs /\ fs_files' = fs_files)]_vars


-----------------------------------------------------------------------------
(* C4 *)

\* C4: the paths a dry-run lists are the paths the real run with the same
\* inputs creates or writes (a directory that is ensured counts as created).
C4_SamePaths ==
    (run = 2 /\ prev.dry_run /\ prev.rc = 0 /\ pc = "exit") =>
        {prev.created[i].path : i \in 1..Len(prev.created)} =
        {trace[i].path : i \in {j \in 1..Len(trace) : trace[j].act \in {"mkdir", "write"}}}

-----------------------------------------------------------------------------
(* C5 *)

\* a node the enabled-id set excludes: optional, with an id that is not enabled
Excluded(node) ==
    /\ "optional" \in DOMAIN node /\ node.optional = TRUE
    /\ "id" \in DOMAIN node /\ node.id # <<>>
    /\ node.id \notin inp.enabled

\* the node at pos, or a node above it, is excluded
Pruned(pos) == \E k \in 0..Len(pos) : Excluded(NodeAt(Root, SubSeq(pos, 1, k)))

AllEvents == {trace[i] : i \in 1..Len(trace)} \cup {prev.trace[i] : i \in 1..Len(prev.trace)}

\* C5: nothing is done for an excluded node or below it: no step of the
\* traversal is about such a node, every dry-run record comes from a step, and
\* every path the filesystem gained (the destination root aside) was made by
\* a step.
C5_Pruning ==
    /\ \A e \in AllEvents : ~Pruned(e.pos)
    /\ \A j \in 1..Len(lists) : \A k \in 1..Len(lists[j]) :
          \E e \in AllEvents :
              e.act = "record" /\ e.kind = lists[j][k].kind /\ e.path = lists[j][k].path
    /\ \A p \in (fs_dirs \cup DOMAIN fs_files) :
          \/ p \in inp.dest.dirs \cup DOMAIN inp.dest.files
          \/ p = <<>>
          \/ \E e \in AllEvents : e.path = p /\ e.act \in {"mkdir", "write"}

\* a real run has passed an excluded child that has a plain child with a file
C5_Witness ==
    /\ pc = "exit" /\ rc = 0 /\ ~dry_run
    /\ "root" \in DOMAIN inp.spec
    /\ Children(Root) # <<>>
    /\ Excluded(NodeAt(Root, <<1>>))
    /\ Children(NodeAt(Root, <<1>>)) # <<>>
    /\ DOMAIN NodeAt(Root, <<1, 1>>) = {"dir", "files", "children"}
    /\ Files(NodeAt(Root, <<1, 1>>)) # <<>>
    /\ \E i \in 1..Len(trace) : trace[i].act = "write"

-----------------------------------------------------------------------------
(* C6 *)

MinOf(S) == CHOOSE x \in S : \A y \in S : x <= y
MaxOf(S) == CHOOSE x \in S : \A y \in S : x >= y

\* s without the blanks around it
Trim(s) ==
    LET I == {i \in 1..Len(s) : s[i] # " "} IN
    IF I = {} THEN <<>> ELSE SubSeq(s, MinOf(I), MaxOf(I))

\* the mapping's value for key, the empty string for a key it has not
Bound(key) ==
    IF \E i \in 1..Len(inp.vars_) : inp.vars_[i].k = key
    THEN CHOOSE v \in {inp.vars_[i].v : i \in 1..Len(inp.vars_)} :
             \E i \in 1..Len(inp.vars_) : inp.vars_[i].k = key /\ inp.vars_[i].v = v
    ELSE <<>>

\* the key=value predicate oi holds of the mapping
KeyValueHolds(oi) ==
    \E i \in 1..Len(oi) :
        /\ oi[i] = "="
        /\ \A j \in 1..(i - 1) : oi[j] # "="
        /\ Bound(Trim(SubSeq(oi, 1, i - 1))) = Trim(SubSeq(oi, i + 1, Len(oi)))

CondHolds(f) == ~Truthy(Get(f, "only_if")) \/ KeyValueHolds(f.only_if)

\* the positions of the nodes the traversal is to visit
RECURSIVE Reach(_, _)
Reach(node, pos) ==
    IF Excluded(node) THEN {}
    ELSE {pos} \cup UNION {Reach(Children(node)[c], Append(pos, c)) :
                              c \in 1..Len(Children(node))}

Finished == pc = "exit" /\ rc = 0 /\ "root" \in DOMAIN inp.spec

GatedEntry(f) ==
    "optional" \in DOMAIN f /\ f.optional = TRUE /\ "id" \in DOMAIN f /\ f.id # <<>>

Processed(q, fi) ==
    \E i \in 1..Len(trace) :
        /\ trace[i].kind = "FILE" /\ trace[i].pos = q /\ trace[i].fi = fi
        /\ trace[i].act \in {"record", "write", "skip"}

\* C6 as stated: a file entry that is optional and carries an id is recorded
\* or handed to the write iff its id is enabled; any other file entry is not
\* gated by the enabled-id set.
C6_AsStated ==
    Finished =>
        \A q \in Reach(Root, <<>>) : \A fi \in 1..Len(Files(NodeAt(Root, q))) :
            LET f == Files(NodeAt(Root, q))[fi] IN
            CondHolds(f) => (Processed(q, fi) <=> (GatedEntry(f) => f.id \in inp.enabled))

\* C6, amended: the optionality gate applies to directory nodes only.  In a
\* run that ends without error every file entry of every node the traversal
\* is to visit is recorded (dry-run) or handed to the Conflict Policy (real
\* run) when its only_if holds, and only passed over when it does not,
\* whatever the entry's optional flag and id and whatever the enabled-id set.
C6_FilesNotGated ==
    Finished =>
        \A q \in Reach(Root, <<>>) : \A fi \in 1..Len(Files(NodeAt(Root, q))) :
            LET f == Files(NodeAt(Root, q))[fi]
                I == {i \in 1..Len(trace) :
                        trace[i].kind = "FILE" /\ trace[i].pos = q /\ trace[i].fi = fi}
            IN  /\ Cardinality(I) = 1
                /\ \A i \in I :
                    IF CondHolds(f)
                    THEN trace[i].act \in (IF dry_run THEN {"record"} ELSE {"write", "skip"})
                    ELSE trace[i].act = "cond_false"

\* an optional file entry whose id is not enabled has been written
C6_Witness ==
    /\ Finished /\ ~dry_run
    /\ \E i \in 1..Len(trace) :
          /\ trace[i].kind = "FILE" /\ trace[i].act = "write"
          /\ GatedEntry(EntryOf(trace[i]))
          /\ EntryOf(trace[i]).id \notin inp.enabled

-----------------------------------------------------------------------------
(* C7 *)

\* C7: once a step has raised, no later step of the traversal is performed
\* and the filesystem stays as it is until main returns; every directory made
\* and every file written before is on disk as the last step that wrote it
\* left it.
C7_FailFast ==
    /\ \A i \in 1..Len(trace) : trace[i].act = "raise" => (i = Len(trace) /\ err # "")
    /\ err # "" => (trace # <<>> /\ trace[Len(trace)].act = "raise"
                    /\ trace[Len(trace)].error = err /\ stack = <<>>)
    /\ ~dry_run =>
         \A i \in 1..Len(trace) :
            \/ trace[i].act \notin {"mkdir", "write"}
            \/ \E j \in (i + 1)..Len(trace) :
                  trace[j].path = trace[i].path /\ trace[j].act \in {"mkdir", "write"}
            \/ Stat(fs_dirs, fs_files, trace[i].path) = trace[i].after

\* a conflict rejection after a directory was made, with a file entry and a
\* child still to come
C7_Witness ==
    /\ pc = "exit" /\ rc = 1 /\ err = "FileExistsError"
    /\ Len(trace) >= 2
    /\ trace[1].act = "mkdir"
    /\ trace[Len(trace)].kind = "FILE"
    /\ trace[Len(trace)].fi < Len(Files(NodeAt(Root, trace[Len(trace)].pos)))
    /\ Children(Root) # <<>>


-----------------------------------------------------------------------------
(* C8 *)

\* pre-order on the steps: a node's own directory (fi = 0) and its file
\* entries in declared order come before everything below the node, and a
\* child's whole subtree comes before its next sibling's
Before(a, b) ==
    \/ a.pos = b.pos /\ a.fi < b.fi
    \/ Len(a.pos) < Len(b.pos) /\ SubSeq(b.pos, 1, Len(a.pos)) = a.pos
    \/ \E k \in 1..Len(a.pos) :
          /\ k <= Len(b.pos)
          /\ SubSeq(a.pos, 1, k - 1) = SubSeq(b.pos, 1, k - 1)
          /\ a.pos[k] < b.pos[k]

KindPath(x) == [kind |-> x.kind, path |-> x.path]

RECURSIVE KindPaths(_)
KindPaths(sq) == IF sq = <<>> THEN <<>> ELSE <<KindPath(Head(sq))>> \o KindPaths(Tail(sq))

IsRecord(e) == e.act = "record"
IsOp(e) == e.act \in {"mkdir", "write"}

RECURSIVE IsSubseq(_, _)
IsSubseq(a, b) ==
    IF a = <<>> THEN TRUE
    ELSE IF b = <<>> THEN FALSE
    ELSE IF Head(a) = Head(b) THEN IsSubseq(Tail(a), Tail(b))
         ELSE IsSubseq(a, Tail(b))

\* the list a successful dry-run returns is the list of its steps, in order
ListIsSteps ==
    (dry_run /\ Finished) => KindPaths(created) = KindPaths(SelectSeq(trace, IsRecord))

\* C8: the steps of a run, dry or real, are taken in pre-order; the list a
\* dry-run returns holds them in that order; and the directory and file
\* operations of the real run with the same inputs follow one another in the
\* order of the dry-run's records (all of them, when the real run ends
\* without error and skips nothing).
C8_PreOrder ==
    /\ \A i \in 1..Len(trace) : \A j \in (i + 1)..Len(trace) : Before(trace[i], trace[j])
    /\ \A i \in 1..Len(trace) : (trace[i].kind = "DIR") <=> (trace[i].fi = 0)
    /\ ListIsSteps
    /\ (run = 2 /\ prev.dry_run /\ prev.rc = 0 /\ "root" \in DOMAIN inp.spec) =>
          /\ IsSubseq(KindPaths(SelectSeq(trace, IsOp)), KindPaths(prev.created))
          /\ (pc = "exit" /\ rc = 0 /\ \A i \in 1..Len(trace) : trace[i].act # "skip") =>
                KindPaths(SelectSeq(trace, IsOp)) = KindPaths(prev.created)

\* a real run after its dry-run, over a root with two file entries and two
\* children that have a file entry each
C8_Witness ==
    /\ run = 2 /\ prev.dry_run /\ prev.rc = 0 /\ pc = "exit" /\ rc = 0
    /\ Len(prev.created) >= 7
    /\ Len(Children(Root)) >= 2
    /\ KindPaths(SelectSeq(trace, IsOp)) = KindPaths(prev.created)

-----------------------------------------------------------------------------
(* C9 *)

\* the steps of a real run that ensure a node's directory
Ensures(e) == ~dry_run /\ e.kind = "DIR" /\ ~(e.act = "raise" /\ e.error = "ValueError")

\* C9 as stated: ensuring the directory of an included node never fails.
C9_AsStated == \A i \in 1..Len(trace) : Ensures(trace[i]) => trace[i].act = "mkdir"

\* C9, amended: ensuring the directory of an included node makes it when the
\* path is free and leaves it as it is when it is a directory, whatever force
\* and add are; when a file holds the path (one that was there, or one the
\* same run wrote) it raises FileExistsError, the run is aborted and the file
\* is left as it is.
C9_EnsureDir ==
    /\ LastAsLogged
    /\ \A i \in 1..Len(trace) :
        LET e == trace[i] IN
        Ensures(e) =>
            /\ e.before.type = "none" => (e.act = "mkdir" /\ e.after.type = "dir")
            /\ e.before.type = "dir"  => (e.act = "mkdir" /\ e.after = e.before)
            /\ e.before.type = "file" =>
                  (e.act = "raise" /\ e.error = "FileExistsError" /\ e.after = e.before)

\* a child's directory is refused because the same run wrote a file there
C9_Witness ==
    \E i \in 1..Len(trace) :
        /\ Ensures(trace[i]) /\ trace[i].act = "raise"
        /\ \E j \in 1..(i - 1) : trace[j].act = "write" /\ trace[j].path = trace[i].path

-----------------------------------------------------------------------------
(* C10 *)

\* C10: an absent only_if holds; a key=value only_if holds iff the mapping's
\* value for the key (the empty string for a missing key) is the value,
\* character for character, the blanks around key and value aside.  An entry
\* whose only_if does not hold is passed over: it changes nothing, it is not
\* in the list the dry-run returns, and its path is in the filesystem only if
\* it was there before or another step made it.
C10_OnlyIf ==
    /\ \A i \in 1..Len(trace) :
        LET e == trace[i] IN
        (e.kind = "FILE" /\ "name" \in DOMAIN EntryOf(e)) =>
            LET oi == Get(EntryOf(e), "only_if") IN
            /\ oi = None => e.act # "cond_false"
            /\ (oi # None /\ \E k \in 1..Len(oi) : oi[k] = "=") =>
                  (e.act = "cond_false" <=> ~KeyValueHolds(oi))
            /\ e.act = "cond_false" =>
                  /\ e.after = e.before
                  /\ \/ Stat(fs_dirs, fs_files, e.path).type = "none"
                     \/ e.path \in inp.dest.dirs \cup DOMAIN inp.dest.files
                     \/ \E x \in AllEvents : x.path = e.path /\ x.act \in {"mkdir", "write"}
    /\ ListIsSteps
    /\ \A i \in 1..Len(trace) : \A j \in 1..Len(lists) : \A k \in 1..Len(lists[j]) :
          (trace[i].act = "cond_false" /\ lists[j][k].path = trace[i].path) =>
              \E x \in 1..Len(trace) : trace[x].act = "record" /\ trace[x].path = trace[i].path

\* a real run has passed over an entry whose only_if names another value, and
\* the entry's file is not there
C10_Witness ==
    /\ Finished /\ ~dry_run
    /\ \E i \in 1..Len(trace) :
          /\ trace[i].act = "cond_false"
          /\ Len(EntryOf(trace[i]).only_if) = 3
          /\ Stat(fs_dirs, fs_files, trace[i].path).type = "none"

-----------------------------------------------------------------------------
(* C11 *)

\* the steps that evaluated the only_if of a file entry (the entry has a name)
Evaluated(e) == e.kind = "FILE" /\ "name" \in DOMAIN EntryOf(e)

\* the entry carries an only_if string without "="
NoEqCond(f) == "only_if" \in DOMAIN f /\ ~HasEq(f.only_if)

\* the step raised the ValueError of cond_pass, which ended the run: it is the
\* last step, no frame of walk is left, nothing changed, and main returns 1
CondError(i) ==
    /\ trace[i].act = "raise" /\ trace[i].error = "ValueError"
    /\ trace[i].after = trace[i].before
    /\ i = Len(trace) /\ stack = <<>> /\ err = "ValueError"
    /\ pc = "exit" => rc = 1

\* C11 as stated: an only_if without "=" is never evaluated to true or false;
\* evaluating it raises the condition error, which aborts the run, in both
\* modes.
C11_AsStated ==
    \A i \in 1..Len(trace) :
        (Evaluated(trace[i]) /\ NoEqCond(EntryOf(trace[i]))) => CondError(i)

\* C11, amended: an only_if that is not empty and has no "=" is never
\* evaluated to true or false; evaluating it raises the condition error, which
\* aborts the run, in both modes.  An empty only_if is taken as absent: it
\* holds, and the entry is processed as one without only_if.
C11_CondSyntax ==
    /\ LastAsLogged
    /\ \A i \in 1..Len(trace) :
        LET e == trace[i]
            f == EntryOf(e)
        IN
        (Evaluated(e) /\ NoEqCond(f)) =>
            IF f.only_if # <<>>
            THEN CondError(i)
            ELSE /\ e.act # "cond_false"
                 /\ ~(e.act = "raise" /\ e.error = "ValueError")
                 /\ dry_run => e.act = "record"

\* the preview and the real run after it both stopped at the same only_if,
\* which is not empty and has no "="
C11_Witness ==
    /\ run = 2 /\ prev.dry_run /\ prev.err = "ValueError" /\ prev.rc = 1
    /\ pc = "exit" /\ trace # <<>> /\ trace[Len(trace)] = prev.trace[Len(prev.trace)]
    /\ LET e == trace[Len(trace)] IN
          /\ Evaluated(e) /\ NoEqCond(EntryOf(e)) /\ EntryOf(e).only_if # <<>>
          /\ e.act = "raise"

-----------------------------------------------------------------------------
(* C12 *)

\* the positions of the nodes the traversal meets: the root, and the children
\* of every included node
RECURSIVE Met(_, _)
Met(node, pos) ==
    IF "dir" \notin DOMAIN node \/ Excluded(node) THEN {pos}
    ELSE {pos} \cup UNION {Met(Children(node)[c], Append(pos, c)) :
                              c \in 1..Len(Children(node))}

\* C12: a node without 'dir' that the traversal meets, as the root or as a
\* child of an included node, aborts the run with the structural error,
\* whatever its optional and id and the enabled ids are: no run ends without
\* error over a tree that has such a node.
C12_NoSilentSkip ==
    Finished => \A pos \in Met(Root, <<>>) : "dir" \in DOMAIN NodeAt(Root, pos)

-----------------------------------------------------------------------------
(* C13 *)

\* sub occurs in s
Contains(s, sub) ==
    \E i \in 1..(Len(s) - Len(sub) + 1) : SubSeq(s, i, i + Len(sub) - 1) = sub

IsBound(key) == \E i \in 1..Len(inp.vars_) : inp.vars_[i].k = key

\* s holds the placeholder of no bound key
NoBound(s) == \A i \in 1..Len(inp.vars_) : ~Contains(s, Placeholder(inp.vars_[i].k))

\* s with the value of its key in place of every placeholder of a bound key,
\* read from left to right; everything else is kept
RECURSIVE Substituted(_)
Substituted(s) ==
    IF s = <<>> THEN <<>>
    ELSE LET K == {i \in 1..Len(inp.vars_) :
                     /\ Len(Placeholder(inp.vars_[i].k)) <= Len(s)
                     /\ SubSeq(s, 1, Len(Placeholder(inp.vars_[i].k))) = Placeholder(inp.vars_[i].k)}
         IN  IF K = {} THEN <<Head(s)>> \o Substituted(Tail(s))
             ELSE LET i == CHOOSE i \in K : TRUE IN
                  inp.vars_[i].v \o
                  Substituted(SubSeq(s, Len(Placeholder(inp.vars_[i].k)) + 1, Len(s)))

Brace(c) == c \in {"{", "}"}

\* every brace of s is one of a placeholder {{KEY}}
RECURSIVE WellFormed(_)
WellFormed(s) ==
    IF s = <<>> THEN TRUE
    ELSE IF ~Brace(Head(s)) THEN WellFormed(Tail(s))
    ELSE \E j \in 3..(Len(s) - 1) :
            /\ s[1] = "{" /\ s[2] = "{" /\ s[j] = "}" /\ s[j + 1] = "}"
            /\ \A k \in 3..(j - 1) : ~Brace(s[k])
            /\ WellFormed(SubSeq(s, j + 2, Len(s)))

\* no value of the mapping holds a brace
CleanValues ==
    \A i \in 1..Len(inp.vars_) : \A k \in 1..Len(inp.vars_[i].v) : ~Brace(inp.vars_[i].v[k])

\* the directory the step's name is joined to: the destination for the root's
\* own directory, the parent's directory for a child's, the node's directory
\* for a file
Base(e) ==
    LET q == IF e.kind = "FILE" THEN e.pos ELSE Parent(e.pos) IN
    IF e.kind = "DIR" /\ e.pos = <<>> THEN <<>>
    ELSE trace[CHOOSE i \in 1..Len(trace) : trace[i].kind = "DIR" /\ trace[i].pos = q].path

\* the name as the step rendered it: the last segment of its path
Rendered(e) == IF e.path = Base(e) THEN <<>> ELSE e.path[Len(e.path)]

\* the steps that rendered a directory name or a file name, with the name
Named(e) ==
    \/ e.kind = "DIR" /\ e.act \in {"record", "mkdir"}
    \/ e.kind = "FILE" /\ "name" \in DOMAIN EntryOf(e)

NameOf(e) == IF e.kind = "DIR" THEN NodeAt(Root, e.pos).dir ELSE EntryOf(e).name

\* the steps that wrote an inline content
Inlined(e) ==
    /\ e.kind = "FILE" /\ e.act = "write" /\ e.after.type = "file"
    /\ "content" \in DOMAIN EntryOf(e)

\* the rendered text is s with every placeholder of a bound key replaced by
\* the key's value, it holds no placeholder of a bound key, and the rest of s
\* (the placeholders of keys that are not bound included) is kept
Complete(s, out) == out = Substituted(s) /\ NoBound(out)

\* C13 as stated: every directory name, file name and inline content is
\* rendered completely, for every mapping.
C13_AsStated ==
    \A i \in 1..Len(trace) :
        LET e == trace[i] IN
        /\ Named(e) =>
              (Len(e.path) <= Len(Base(e)) + 1 /\ Complete(NameOf(e), Rendered(e)))
        /\ Inlined(e) => Complete(EntryOf(e).content, e.after.data)

\* C13, amended: every directory name, file name and inline content whose
\* braces all belong to placeholders is rendered completely when no value of
\* the mapping holds a brace.
C13_Substitution ==
    \A i \in 1..Len(trace) :
        LET e == trace[i] IN
        CleanValues =>
            /\ (Named(e) /\ WellFormed(NameOf(e))) =>
                  (Len(e.path) <= Len(Base(e)) + 1 /\ Complete(NameOf(e), Rendered(e)))
            /\ (Inlined(e) /\ WellFormed(EntryOf(e).content)) =>
                  Complete(EntryOf(e).content, e.after.data)

\* a real run wrote an inline content that holds the placeholders of two
\* bound keys and of a key that is not bound, under a file name that holds
\* them too
C13_Witness ==
    /\ CleanValues /\ ~dry_run
    /\ \E i \in 1..Len(trace) :
          LET e == trace[i] IN
          /\ Inlined(e) /\ Named(e)
          /\ \A k \in {<<"P">>, <<"s">>, <<"U">>} :
                Contains(EntryOf(e).content, Placeholder(k)) /\ Contains(NameOf(e), Placeholder(k))
          /\ IsBound(<<"P">>) /\ IsBound(<<"s">>) /\ ~IsBound(<<"U">>)
          /\ Contains(e.after.data, Placeholder(<<"U">>))
          /\ e.after.data # EntryOf(e).content

-----------------------------------------------------------------------------
(* C14 *)

\* the step that has just been taken, in a real run, is about a file entry
\* that uses 'from' without 'content', whose source is not under the template
\* root, whose only_if holds and which the Conflict Policy lets proceed
MissingSourceStep ==
    /\ ~dry_run /\ pc = "walk"
    /\ Len(trace') = Len(trace) + 1
    /\ LET e == trace'[Len(trace')] IN
          /\ e.kind = "FILE" /\ "name" \in DOMAIN EntryOf(e)
          /\ SourceMissing(EntryOf(e))
          /\ CondHolds(EntryOf(e))
          /\ e.before.type = "none" \/ inp.force

\* C14: in a real run, the step of a file entry that uses 'from' without
\* 'content', passes only_if and the Conflict Policy and has no source under
\* the template root raises the missing-source error, which ends the walk;
\* the step changes neither a directory nor a file: the destination is not
\* created, and one that was there keeps its content and its time, under
\* force too.
C14_MissingSource ==
    [][MissingSourceStep =>
          LET e == trace'[Len(trace')] IN
          /\ e.act = "raise" /\ e.error = "FileNotFoundError"
          /\ err' = "FileNotFoundError" /\ stack' = <<>>
          /\ fs_dirs' = fs_dirs /\ fs_files' = fs_files
          /\ e.after = e.before
          /\ Stat(fs_dirs', fs_files', e.path) = e.before]_vars

\* under force, a destination file that was there before the run has kept its
\* content when the run stopped at its entry for want of the template
C14_Witness ==
    /\ ~dry_run /\ inp.force /\ pc = "exit" /\ rc = 1 /\ err = "FileNotFoundError"
    /\ trace # <<>>
    /\ LET e == trace[Len(trace)] IN
          /\ e.kind = "FILE" /\ SourceMissing(EntryOf(e))
          /\ e.before.type = "file"
          /\ e.path \in DOMAIN inp.dest.files
          /\ e.path \in DOMAIN fs_files /\ fs_files[e.path] = inp.dest.files[e.path]

====
